---- MODULE Spec2Model ----
(***************************************************************************)
(* Model of python_bridge.py: the line-oriented session loop               *)
(* (PythonBridge.run), the command dispatcher (process_request), the       *)
(* textual security validation (_validate_code_security), the import gate  *)
(* (_safe_import) and the execute / evaluate / call_module handlers with   *)
(* the persistent globals_dict.                                            *)
(*                                                                         *)
(* Source text is modelled as a sequence of one-character strings so that  *)
(* upper-casing and Python's substring test ("pattern in code") are        *)
(* computed the way the code computes them.                                *)
(***************************************************************************)
EXTENDS Integers, Sequences, FiniteSets, TLC

(***************************************************************************)
(* Bounds                                                                  *)
(***************************************************************************)
\* number of input lines a session reads, with the full sample of requests
MaxRequests == 2
\* number of input lines a session reads, with the context requests only
MaxContextRequests == 3

(***************************************************************************)
(* Text: every literal string used by the code or by the sample inputs,    *)
(* spelled out character by character.                                     *)
(***************************************************************************)
Chars ==
   ("math" :> <<"m", "a", "t", "h">>) @@
   ("json" :> <<"j", "s", "o", "n">>) @@
   ("datetime" :> <<"d", "a", "t", "e", "t", "i", "m", "e">>) @@
   ("itertools" :> <<"i", "t", "e", "r", "t", "o", "o", "l", "s">>) @@
   ("collections" :> <<"c", "o", "l", "l", "e", "c", "t", "i", "o", "n", "s">>) @@
   ("decimal" :> <<"d", "e", "c", "i", "m", "a", "l">>) @@
   ("random" :> <<"r", "a", "n", "d", "o", "m">>) @@
   ("re" :> <<"r", "e">>) @@
   ("statistics" :> <<"s", "t", "a", "t", "i", "s", "t", "i", "c", "s">>) @@
   ("time" :> <<"t", "i", "m", "e">>) @@
   ("calendar" :> <<"c", "a", "l", "e", "n", "d", "a", "r">>) @@
   ("uuid" :> <<"u", "u", "i", "d">>) @@
   ("hashlib" :> <<"h", "a", "s", "h", "l", "i", "b">>) @@
   ("base64" :> <<"b", "a", "s", "e", "6", "4">>) @@
   ("string" :> <<"s", "t", "r", "i", "n", "g">>) @@
   ("textwrap" :> <<"t", "e", "x", "t", "w", "r", "a", "p">>) @@
   ("difflib" :> <<"d", "i", "f", "f", "l", "i", "b">>) @@
   ("enum" :> <<"e", "n", "u", "m">>) @@
   ("functools" :> <<"f", "u", "n", "c", "t", "o", "o", "l", "s">>) @@
   ("operator" :> <<"o", "p", "e", "r", "a", "t", "o", "r">>) @@
   ("copy" :> <<"c", "o", "p", "y">>) @@
   ("ast" :> <<"a", "s", "t">>) @@
   ("os" :> <<"o", "s">>) @@
   ("subprocess" :> <<"s", "u", "b", "p", "r", "o", "c", "e", "s", "s">>) @@
   ("sys" :> <<"s", "y", "s">>) @@
   ("socket" :> <<"s", "o", "c", "k", "e", "t">>) @@
   ("urllib" :> <<"u", "r", "l", "l", "i", "b">>) @@
   ("requests" :> <<"r", "e", "q", "u", "e", "s", "t", "s">>) @@
   ("http" :> <<"h", "t", "t", "p">>) @@
   ("ftplib" :> <<"f", "t", "p", "l", "i", "b">>) @@
   ("smtplib" :> <<"s", "m", "t", "p", "l", "i", "b">>) @@
   ("pathlib" :> <<"p", "a", "t", "h", "l", "i", "b">>) @@
   ("shutil" :> <<"s", "h", "u", "t", "i", "l">>) @@
   ("glob" :> <<"g", "l", "o", "b">>) @@
   ("tempfile" :> <<"t", "e", "m", "p", "f", "i", "l", "e">>) @@
   ("sqlite3" :> <<"s", "q", "l", "i", "t", "e", "3">>) @@
   ("csv" :> <<"c", "s", "v">>) @@
   ("xml" :> <<"x", "m", "l">>) @@
   ("pandas" :> <<"p", "a", "n", "d", "a", "s">>) @@
   ("numpy" :> <<"n", "u", "m", "p", "y">>) @@
   ("pickle" :> <<"p", "i", "c", "k", "l", "e">>) @@
   ("shelve" :> <<"s", "h", "e", "l", "v", "e">>) @@
   ("dbm" :> <<"d", "b", "m">>) @@
   ("telnetlib" :> <<"t", "e", "l", "n", "e", "t", "l", "i", "b">>) @@
   ("paramiko" :> <<"p", "a", "r", "a", "m", "i", "k", "o">>) @@
   ("pty" :> <<"p", "t", "y">>) @@
   ("tty" :> <<"t", "t", "y">>) @@
   ("termios" :> <<"t", "e", "r", "m", "i", "o", "s">>) @@
   ("fcntl" :> <<"f", "c", "n", "t", "l">>) @@
   ("pipes" :> <<"p", "i", "p", "e", "s">>) @@
   ("posix" :> <<"p", "o", "s", "i", "x">>) @@
   ("pwd" :> <<"p", "w", "d">>) @@
   ("grp" :> <<"g", "r", "p">>) @@
   ("crypt" :> <<"c", "r", "y", "p", "t">>) @@
   ("ctypes" :> <<"c", "t", "y", "p", "e", "s">>) @@
   ("multiprocessing" :> <<"m", "u", "l", "t", "i", "p", "r", "o", "c", "e", "s", "s", "i", "n", "g">>) @@
   ("threading" :> <<"t", "h", "r", "e", "a", "d", "i", "n", "g">>) @@
   ("asyncio" :> <<"a", "s", "y", "n", "c", "i", "o">>) @@
   ("concurrent" :> <<"c", "o", "n", "c", "u", "r", "r", "e", "n", "t">>) @@
   ("__builtin__" :> <<"_", "_", "b", "u", "i", "l", "t", "i", "n", "_", "_">>) @@
   ("builtins" :> <<"b", "u", "i", "l", "t", "i", "n", "s">>) @@
   ("__import__" :> <<"_", "_", "i", "m", "p", "o", "r", "t", "_", "_">>) @@
   ("eval" :> <<"e", "v", "a", "l">>) @@
   ("exec" :> <<"e", "x", "e", "c">>) @@
   ("compile" :> <<"c", "o", "m", "p", "i", "l", "e">>) @@
   ("open" :> <<"o", "p", "e", "n">>) @@
   ("input" :> <<"i", "n", "p", "u", "t">>) @@
   ("raw_input" :> <<"r", "a", "w", "_", "i", "n", "p", "u", "t">>) @@
   ("file" :> <<"f", "i", "l", "e">>) @@
   ("execfile" :> <<"e", "x", "e", "c", "f", "i", "l", "e">>) @@
   ("reload" :> <<"r", "e", "l", "o", "a", "d">>) @@
   ("vars" :> <<"v", "a", "r", "s">>) @@
   ("locals" :> <<"l", "o", "c", "a", "l", "s">>) @@
   ("globals" :> <<"g", "l", "o", "b", "a", "l", "s">>) @@
   ("dir" :> <<"d", "i", "r">>) @@
   ("getattr" :> <<"g", "e", "t", "a", "t", "t", "r">>) @@
   ("setattr" :> <<"s", "e", "t", "a", "t", "t", "r">>) @@
   ("delattr" :> <<"d", "e", "l", "a", "t", "t", "r">>) @@
   ("hasattr" :> <<"h", "a", "s", "a", "t", "t", "r">>) @@
   ("EVAL(" :> <<"E", "V", "A", "L", "(">>) @@
   ("EXEC(" :> <<"E", "X", "E", "C", "(">>) @@
   ("__IMPORT__" :> <<"_", "_", "I", "M", "P", "O", "R", "T", "_", "_">>) @@
   ("COMPILE(" :> <<"C", "O", "M", "P", "I", "L", "E", "(">>) @@
   ("OPEN(" :> <<"O", "P", "E", "N", "(">>) @@
   ("SUBPROCESS." :> <<"S", "U", "B", "P", "R", "O", "C", "E", "S", "S", ".">>) @@
   ("OS." :> <<"O", "S", ".">>) @@
   ("SYS." :> <<"S", "Y", "S", ".">>) @@
   ("SOCKET." :> <<"S", "O", "C", "K", "E", "T", ".">>) @@
   ("zipfile" :> <<"z", "i", "p", "f", "i", "l", "e">>) @@
   ("ptyprocess" :> <<"p", "t", "y", "p", "r", "o", "c", "e", "s", "s">>) @@
   ("os.path" :> <<"o", "s", ".", "p", "a", "t", "h">>) @@
   ("import" :> <<"i", "m", "p", "o", "r", "t">>) @@
   ("from" :> <<"f", "r", "o", "m">>) @@
   ("IMPORT " :> <<"I", "M", "P", "O", "R", "T", " ">>) @@
   ("FROM " :> <<"F", "R", "O", "M", " ">>) @@
   (" IMPORT" :> <<" ", "I", "M", "P", "O", "R", "T">>) @@
   ("result" :> <<"r", "e", "s", "u", "l", "t">>) @@
   ("x" :> <<"x">>) @@
   ("getcwd" :> <<"g", "e", "t", "c", "w", "d">>) @@
   ("()" :> <<"(", ")">>) @@
   ("fork" :> <<"f", "o", "r", "k">>) @@
   ("len" :> <<"l", "e", "n">>) @@
   ("print(\"hi\")" :> <<"p", "r", "i", "n", "t", "(", "\"", "h", "i", "\"", ")">>) @@
   ("raise ValueError" :> <<"r", "a", "i", "s", "e", " ", "V", "a", "l", "u", "e", "E", "r", "r", "o", "r">>) @@
   ("raise SystemExit" :> <<"r", "a", "i", "s", "e", " ", "S", "y", "s", "t", "e", "m", "E", "x", "i", "t">>) @@
   ("exit()" :> <<"e", "x", "i", "t", "(", ")">>) @@
   ("eval(\"1\")" :> <<"e", "v", "a", "l", "(", "\"", "1", "\"", ")">>) @@
   ("{b\"a\"}" :> <<"{", "b", "\"", "a", "\"", "}">>) @@
   ("items" :> <<"i", "t", "e", "m", "s">>) @@
   ("[]" :> <<"[", "]">>) @@
   (".append(1)" :> <<".", "a", "p", "p", "e", "n", "d", "(", "1", ")">>) @@
   ("__import__(\"" :> <<"_", "_", "i", "m", "p", "o", "r", "t", "_", "_", "(", "\"">>) @@
   ("\")" :> <<"\"", ")">>) @@
   (" = " :> <<" ", "=", " ">>) @@
   (" + " :> <<" ", "+", " ">>) @@
   (" " :> <<" ">>) @@
   ("  " :> <<" ", " ">>) @@
   ("\n" :> <<"\n">>) @@
   ("0" :> <<"0">>) @@
   ("1" :> <<"1">>) @@
   ("2" :> <<"2">>) @@
   ("3" :> <<"3">>) @@
   ("4" :> <<"4">>) @@
   ("5" :> <<"5">>) @@
   ("6" :> <<"6">>) @@
   ("7" :> <<"7">>) @@
   ("8" :> <<"8">>) @@
   ("9" :> <<"9">>)

\* PythonBridge.__init__: the four policy sets
safe_modules ==
  {
   "math", "json", "datetime", "itertools", "collections", "decimal",
   "random", "re", "statistics", "time", "calendar", "uuid", "hashlib",
   "base64", "string", "textwrap", "difflib", "enum", "functools",
   "operator", "copy", "ast"
  }
admin_modules ==
  {
   "os", "subprocess", "sys", "socket", "urllib", "requests", "http",
   "ftplib", "smtplib", "pathlib", "shutil", "glob", "tempfile", "sqlite3",
   "csv", "xml", "pandas", "numpy", "pickle", "shelve", "dbm"
  }
always_blocked_modules ==
  {
   "telnetlib", "paramiko", "pty", "tty", "termios", "fcntl", "pipes",
   "posix", "pwd", "grp", "crypt", "ctypes", "multiprocessing",
   "threading", "asyncio", "concurrent", "__builtin__", "builtins"
  }
blocked_functions ==
  {
   "__import__", "eval", "exec", "compile", "open", "input", "raw_input",
   "file", "execfile", "reload", "vars", "locals", "globals", "dir",
   "getattr", "setattr", "delattr", "hasattr"
  }

(***************************************************************************)
(* String primitives of Python used by the policy code                     *)
(***************************************************************************)
LowerCase ==
  <<"a","b","c","d","e","f","g","h","i","j","k","l","m",
    "n","o","p","q","r","s","t","u","v","w","x","y","z">>
UpperCase ==
  <<"A","B","C","D","E","F","G","H","I","J","K","L","M",
    "N","O","P","Q","R","S","T","U","V","W","X","Y","Z">>

\* str.upper() on one character
UpperChar(c) ==
  IF \E i \in 1..26 : LowerCase[i] = c
    THEN UpperCase[CHOOSE i \in 1..26 : LowerCase[i] = c]
    ELSE c

\* str.upper()
Upper(text) == <<>> \o [i \in 1..Len(text) |-> UpperChar(text[i])]

\* Python's "pat in text" on strings: pat occurs as a contiguous substring
Contains(pat, text) ==
  \E i \in 1..(Len(text) - Len(pat) + 1) :
     SubSeq(text, i, i + Len(pat) - 1) = pat

\* f'IMPORT {module.upper()}'
ImportPattern(module) == Chars["IMPORT "] \o Upper(Chars[module])

\* f'FROM {module.upper()} IMPORT'
FromPattern(module) ==
  Chars["FROM "] \o Upper(Chars[module]) \o Chars[" IMPORT"]

\* name.split('.')[0], as characters
FirstComponent(chars) ==
  IF \E i \in 1..Len(chars) : chars[i] = "."
    THEN SubSeq(chars, 1, (CHOOSE i \in 1..Len(chars) :
                             /\ chars[i] = "."
                             /\ \A j \in 1..(i-1) : chars[j] # ".") - 1)
    ELSE chars

\* "name in modules or name.split('.')[0] in modules"
InModuleSet(name, modules) ==
  \/ name \in modules
  \/ \E m \in modules : Chars[m] = FirstComponent(Chars[name])

\* the list dangerous_patterns of _validate_code_security
dangerous_patterns ==
  { "EVAL(", "EXEC(", "__IMPORT__", "COMPILE(", "OPEN(",
    "SUBPROCESS.", "OS.", "SYS.", "SOCKET." }

(***************************************************************************)
(* Security modes.  process_request passes request.get('security_mode',    *)
(* 'RESTRICTED') through unchanged, so a third value stands for every      *)
(* string that is neither "RESTRICTED" nor "ADMIN".                        *)
(***************************************************************************)
Modes == {"RESTRICTED", "ADMIN", "OTHER"}

Accept == [ok |-> TRUE, reason |-> "none", audit |-> {}]
Deny(reason) == [ok |-> FALSE, reason |-> reason, audit |-> {}]

\* the patterns f'IMPORT {module.upper()}' and f'FROM {module.upper()} IMPORT'
\* of every module of a set
ModulePatterns(modules) ==
  { ImportPattern(module) : module \in modules }
  \cup { FromPattern(module) : module \in modules }

AlwaysBlockedPatterns == ModulePatterns(always_blocked_modules)
AdminPatterns == ModulePatterns(admin_modules)

\* func and func.upper() for every blocked function
BlockedFunctionNames == { Chars[func] : func \in blocked_functions }
BlockedFunctionUpperNames ==
  { Upper(Chars[func]) : func \in blocked_functions }

DangerousPatterns == { Chars[pattern] : pattern \in dangerous_patterns }

\* The always-blocked scan that opens _validate_code_security
AlwaysBlockedHit(code_upper) ==
  \E pattern \in AlwaysBlockedPatterns : Contains(pattern, code_upper)

\* The RESTRICTED scan for admin modules
AdminModuleHit(code_upper) ==
  \E pattern \in AdminPatterns : Contains(pattern, code_upper)

\* The RESTRICTED scan for blocked function names
BlockedFunctionHit(code, code_upper) ==
  \/ \E func \in BlockedFunctionNames : Contains(func, code)
  \/ \E func \in BlockedFunctionUpperNames : Contains(func, code_upper)

\* The RESTRICTED scan for dangerous call-site patterns
DangerousPatternHit(code_upper) ==
  \E pattern \in DangerousPatterns : Contains(pattern, code_upper)

\* The ADMIN branch: the admin modules whose use is logged to stderr
AdminAudit(code_upper) ==
  { module \in admin_modules :
      \E pattern \in ModulePatterns({module}) :
         Contains(pattern, code_upper) }

\* the body of _validate_code_security with the blocked-function scan run
\* at ADMIN too
ValidateUpper_mut(code, code_upper, security_mode) ==
  IF AlwaysBlockedHit(code_upper) THEN Deny("always_blocked")
  ELSE IF security_mode = "RESTRICTED" THEN
         IF AdminModuleHit(code_upper) THEN Deny("admin_module")
         ELSE IF BlockedFunctionHit(code, code_upper)
                THEN Deny("blocked_function")
         ELSE IF DangerousPatternHit(code_upper)
                THEN Deny("dangerous_pattern")
         ELSE Accept
  ELSE IF security_mode = "ADMIN" THEN
         IF BlockedFunctionHit(code, code_upper)
           THEN Deny("blocked_function")
           ELSE [ok |-> TRUE, reason |-> "none",
                 audit |-> AdminAudit(code_upper)]
  ELSE Accept

\* The body of _validate_code_security after "code_upper = code.upper()":
\* the verdict is ok when the method returns, and otherwise names the raise
\* statement that was reached.
ValidateUpper(code, code_upper, security_mode) ==
  IF AlwaysBlockedHit(code_upper) THEN Deny("always_blocked")
  ELSE IF security_mode = "RESTRICTED" THEN
         IF AdminModuleHit(code_upper) THEN Deny("admin_module")
         ELSE IF BlockedFunctionHit(code, code_upper)
                THEN Deny("blocked_function")
         ELSE IF DangerousPatternHit(code_upper)
                THEN Deny("dangerous_pattern")
         ELSE Accept
  ELSE IF security_mode = "ADMIN" THEN
         [ok |-> TRUE, reason |-> "none", audit |-> AdminAudit(code_upper)]
  ELSE Accept

\* _validate_code_security(code, security_mode)
validate_code_security(code, security_mode) ==
  CHOOSE verdict \in { ValidateUpper(code, code_upper, security_mode) :
                         code_upper \in {Upper(code)} } : TRUE

\* The checks of _safe_import before importlib.import_module(name)
safe_import(name, security_mode) ==
  IF InModuleSet(name, always_blocked_modules) THEN Deny("always_blocked")
  ELSE IF security_mode = "RESTRICTED" THEN
         IF ~ InModuleSet(name, safe_modules)
           THEN Deny("requires_admin") ELSE Accept
  ELSE IF security_mode = "ADMIN" THEN
         IF ~ InModuleSet(name, safe_modules \cup admin_modules)
           THEN Deny("not_whitelisted") ELSE Accept
  ELSE Accept

(***************************************************************************)
(* Python values that the sample code can produce                          *)
(***************************************************************************)
IntV(n) == [n |-> n, kind |-> "int", s |-> ""]
NoneV == [n |-> 0, kind |-> "none", s |-> ""]
StrV(s) == [n |-> 0, kind |-> "str", s |-> s]
\* an imported module object
ModuleV(m) == [n |-> 0, kind |-> "module", s |-> m]
\* an object taken out of a module by "from m import a"
AttrV(m) == [n |-> 0, kind |-> "attr", s |-> m]
\* a function of the builtins module
BuiltinV(name) == [n |-> 0, kind |-> "builtin", s |-> name]
\* the set {b"a"}
BytesSetV == [n |-> 0, kind |-> "set_of_bytes", s |-> ""]
\* list(obj) of that set: a list that still holds a bytes object
BytesListV == [n |-> 0, kind |-> "list_of_bytes", s |-> ""]

\* what a function taken out of module m returned when it was called
ReturnedBy(m) == [n |-> 0, kind |-> "returned", s |-> m]

\* what request.get finds for a field that the line does not carry
AbsentV == [n |-> 0, kind |-> "absent", s |-> ""]
\* a list object holding n items
ListV(n) == [n |-> n, kind |-> "list", s |-> ""]

\* dict(): a mapping with no keys
EmptyDict == [k \in {} |-> NoneV]

\* dict.update(other) on a copy: keys of other win
DictUpdate(d, other) ==
  [k \in (DOMAIN d) \cup (DOMAIN other) |->
     IF k \in DOMAIN other THEN other[k] ELSE d[k]]

(***************************************************************************)
(* Submitted code: a small abstract syntax and its source text             *)
(***************************************************************************)
Lit(n) == [m |-> 0, n |-> n, s |-> "", e |-> "lit"]
Add(n, m) == [m |-> m, n |-> n, s |-> "", e |-> "add"]
Name(s) == [m |-> 0, n |-> 0, s |-> s, e |-> "name"]
CallImport(s) == [m |-> 0, n |-> 0, s |-> s, e |-> "call_import"]
PrintHi == [m |-> 0, n |-> 0, s |-> "", e |-> "print"]
ExitCall == [m |-> 0, n |-> 0, s |-> "", e |-> "exit"]
EvalCall == [m |-> 0, n |-> 0, s |-> "", e |-> "eval"]
BytesSet == [m |-> 0, n |-> 0, s |-> "", e |-> "bytes_set"]
\* the display []
EmptyList == [m |-> 0, n |-> 0, s |-> "", e |-> "list"]
\* the method call s.append(1)
AppendCall(s) == [m |-> 0, n |-> 0, s |-> s, e |-> "append"]
\* the call s() of the object that the name s refers to
Call(s) == [m |-> 0, n |-> 0, s |-> s, e |-> "call"]

Assign(target, expr) == [expr |-> expr, op |-> "assign", arg |-> target]
ExprStmt(expr) == [expr |-> expr, op |-> "expr", arg |-> ""]
Import(m) == [expr |-> Lit(0), op |-> "import", arg |-> m]
ImportSpaced(m) == [expr |-> Lit(0), op |-> "import_spaced", arg |-> m]
FromImport(m, a) == [expr |-> Name(a), op |-> "from_import", arg |-> m]
Raise(exc) == [expr |-> Lit(0), op |-> "raise", arg |-> exc]

ExprText(expr) ==
  CASE expr.e = "lit" -> Chars[ToString(expr.n)]
    [] expr.e = "add" ->
         Chars[ToString(expr.n)] \o Chars[" + "] \o Chars[ToString(expr.m)]
    [] expr.e = "name" -> Chars[expr.s]
    [] expr.e = "call_import" ->
         Chars["__import__(\""] \o Chars[expr.s] \o Chars["\")"]
    [] expr.e = "print" -> Chars["print(\"hi\")"]
    [] expr.e = "exit" -> Chars["exit()"]
    [] expr.e = "eval" -> Chars["eval(\"1\")"]
    [] expr.e = "bytes_set" -> Chars["{b\"a\"}"]
    [] expr.e = "list" -> Chars["[]"]
    [] expr.e = "append" -> Chars[expr.s] \o Chars[".append(1)"]
    [] expr.e = "call" -> Chars[expr.s] \o Chars["()"]

StmtText(stmt) ==
  CASE stmt.op = "assign" ->
         Chars[stmt.arg] \o Chars[" = "] \o ExprText(stmt.expr)
    [] stmt.op = "expr" -> ExprText(stmt.expr)
    [] stmt.op = "import" -> Chars["import"] \o Chars[" "] \o Chars[stmt.arg]
    [] stmt.op = "import_spaced" ->
         Chars["import"] \o Chars["  "] \o Chars[stmt.arg]
    [] stmt.op = "from_import" ->
         Chars["from"] \o Chars[" "] \o Chars[stmt.arg] \o Chars[" "]
           \o Chars["import"] \o Chars[" "] \o Chars[stmt.expr.s]
    [] stmt.op = "raise" -> Chars["raise " \o stmt.arg]

\* the code string of a request: the statements, one per line
RECURSIVE CodeText(_)
CodeText(stmts) ==
  IF stmts = <<>> THEN <<>>
  ELSE IF Len(stmts) = 1 THEN StmtText(stmts[1])
  ELSE StmtText(stmts[1]) \o Chars["\n"] \o CodeText(Tail(stmts))


(***************************************************************************)
(* Sample inputs                                                           *)
(***************************************************************************)
\* modules named by the sample code: one safe, one admin, one always
\* blocked, and one that is in none of the three sets
CodeModules == {"math", "os", "pty", "zipfile"}

Programs ==
  { <<Assign("result", Add(2, 2))>>,
    <<Assign("x", Lit(1))>>,
    <<Assign("len", Lit(1))>>,
    <<Assign("result", Name("x"))>>,
    <<FromImport("os", "getcwd")>>,
    <<FromImport("pty", "fork")>>,
    <<ExprStmt(PrintHi)>>,
    <<Raise("ValueError")>>,
    <<Raise("SystemExit")>>,
    <<Assign("result", EvalCall)>>,
    <<Assign("result", BytesSet)>>,
    <<Assign("items", EmptyList)>>,
    <<Assign("x", Lit(1)), Raise("ValueError")>>,
    <<ExprStmt(PrintHi), Assign("result", Add(2, 2))>> }
  \cup { <<Import(m)>> : m \in CodeModules }
  \cup { <<ImportSpaced(m)>> : m \in {"os", "pty"} }
  \cup { <<Assign("result", CallImport(m))>> : m \in {"os", "pty", "zipfile"} }

Expressions ==
  { Name("result"), Name("x"), Name("len"), Name("os"), Name("pty"),
    Add(2, 2), PrintHi, AppendCall("items"), Call("getcwd"),
    ExitCall, EvalCall, CallImport("os"), CallImport("pty") }


\* modules named by the sample call_module requests
ModuleCalls ==
  { <<"math", "sqrt">>, <<"math", "nosuch">>, <<"calendar", "prmonth">>,
    <<"sys", "exit">>, <<"os", "getcwd">>, <<"os.path", "join">>,
    <<"pty", "fork">>, <<"zipfile", "is_zipfile">> }

SampleModules == CodeModules \cup { c[1] : c \in ModuleCalls }

SampleTexts ==
  { CodeText(code) : code \in Programs }
  \cup { ExprText(expression) : expression \in Expressions }

\* _validate_code_security, _safe_import and the module check of call_module
\* read nothing but their arguments and the four policy sets, so their
\* verdicts on the sample texts and module names are computed once and
\* looked up by the handlers.
ValidationTable ==
  [text \in SampleTexts |->
     [mode \in Modes |-> validate_code_security(text, mode)]]

ImportTable ==
  [name \in SampleModules |->
     [mode \in Modes |-> safe_import(name, mode)]]

(***************************************************************************)
(* What exec / eval do with that code.  A run is a record                  *)
(*   status   "ok", "exception" (an Exception subclass was raised) or      *)
(*            "exit" (SystemExit, a BaseException that is no Exception)    *)
(*   err      the exception raised                                         *)
(*   val      value of the last expression                                 *)
(*   locals   exec_locals                                                  *)
(*   globals  exec_globals, whose objects may have been changed in place   *)
(*   printed  number of lines written to sys.stdout                        *)
(*   imported modules that were really imported                            *)
(***************************************************************************)
RunOk(globals, val, locals, printed, imported) ==
  [globals |-> globals, val |-> val, locals |-> locals, printed |-> printed,
   imported |-> imported, status |-> "ok", err |-> ""]
RunRaise(globals, status, err, locals, printed, imported) ==
  [globals |-> globals, val |-> NoneV, locals |-> locals, printed |-> printed,
   imported |-> imported, status |-> status, err |-> err]

\* the names of the builtins module that the sample code uses
Builtins == {"len", "print", "exit", "eval", "__import__"}

\* Is the builtin of that name in exec_globals['__builtins__']?  RESTRICTED
\* runs with the builtins minus blocked_functions, every other mode with all.
BuiltinAvailable(name, security_mode) ==
  /\ name \in Builtins
  /\ ~ (security_mode = "RESTRICTED" /\ name \in blocked_functions)

\* one expression, evaluated with the given locals and globals
EvalExpr(expr, locals, globals, security_mode, printed, imported) ==
  CASE expr.e = "lit" -> RunOk(globals, IntV(expr.n),
          locals, printed, imported)
    [] expr.e = "add" ->
         RunOk(globals, IntV(expr.n + expr.m), locals, printed, imported)
    [] expr.e = "name" ->
         IF expr.s \in DOMAIN locals
           THEN RunOk(globals, locals[expr.s], locals, printed, imported)
         ELSE IF expr.s \in DOMAIN globals
           THEN RunOk(globals, globals[expr.s], locals, printed, imported)
         ELSE IF BuiltinAvailable(expr.s, security_mode)
           THEN RunOk(globals, BuiltinV(expr.s), locals, printed, imported)
         ELSE RunRaise(globals, "exception", "NameError",
                 locals, printed, imported)
    [] expr.e = "call_import" ->
         \* the name __import__ resolves to the lambda put in the globals
         IF ImportTable[expr.s][security_mode].ok
           THEN RunOk(globals, ModuleV(expr.s), locals, printed,
                      imported \cup {expr.s})
           ELSE RunRaise(globals, "exception", "ImportError", locals, printed,
                         imported)
    [] expr.e = "print" -> RunOk(globals, NoneV, locals, printed + 1, imported)
    [] expr.e = "exit" ->
         RunRaise(globals, "exit", "SystemExit", locals, printed, imported)
    [] expr.e = "eval" ->
         IF BuiltinAvailable("eval", security_mode)
           THEN RunOk(globals, IntV(1), locals, printed, imported)
           ELSE RunRaise(globals, "exception", "NameError",
                   locals, printed, imported)
    [] expr.e = "bytes_set" ->
         RunOk(globals, BytesSetV, locals, printed, imported)
    [] expr.e = "list" -> RunOk(globals, ListV(0), locals, printed, imported)
    [] expr.e = "append" ->
         \* list.append changes the object the name refers to and
         \* returns None
         IF expr.s \in DOMAIN locals
           THEN IF locals[expr.s].kind = "list"
                  THEN RunOk(globals, NoneV,
                             [locals EXCEPT ![expr.s] = ListV(@.n + 1)],
                             printed, imported)
                  ELSE RunRaise(globals, "exception", "AttributeError",
                                locals, printed, imported)
         ELSE IF expr.s \in DOMAIN globals
           THEN IF globals[expr.s].kind = "list"
                  THEN RunOk([globals EXCEPT ![expr.s] = ListV(@.n + 1)],
                             NoneV, locals, printed, imported)
                  ELSE RunRaise(globals, "exception", "AttributeError",
                                locals, printed, imported)
         ELSE IF BuiltinAvailable(expr.s, security_mode)
           THEN RunRaise(globals, "exception", "AttributeError", locals,
                         printed, imported)
         ELSE RunRaise(globals, "exception", "NameError", locals, printed,
                       imported)
    [] expr.e = "call" ->
         \* the name is looked up like any other; an object taken out of a
         \* module is called whatever the security_mode, any other value
         \* of the sample is not callable or needs arguments
         IF expr.s \in DOMAIN locals \cup DOMAIN globals
           THEN IF DictUpdate(globals, locals)[expr.s].kind = "attr"
                  THEN RunOk(globals,
                             ReturnedBy(DictUpdate(globals, locals)[expr.s].s),
                             locals, printed, imported)
                  ELSE RunRaise(globals, "exception", "TypeError", locals,
                                printed, imported)
         ELSE IF BuiltinAvailable(expr.s, security_mode)
           THEN RunRaise(globals, "exception", "TypeError", locals, printed,
                         imported)
         ELSE RunRaise(globals, "exception", "NameError", locals, printed,
                       imported)

\* one statement of exec(code, exec_globals, exec_locals)
ExecStmt(stmt, locals, globals, security_mode, printed, imported) ==
  CASE stmt.op = "assign" ->
         LET r == EvalExpr(stmt.expr, locals, globals, security_mode,
                           printed, imported) IN
         IF r.status = "ok"
           THEN [r EXCEPT !.locals =
                   DictUpdate(locals, [k \in {stmt.arg} |-> r.val])]
           ELSE r
    [] stmt.op = "expr" ->
         EvalExpr(stmt.expr, locals, globals, security_mode, printed,
                  imported)
    [] stmt.op \in {"import", "import_spaced"} ->
         \* the import statement calls the builtin __import__, not the
         \* name __import__ of the globals
         IF BuiltinAvailable("__import__", security_mode)
           THEN RunOk(globals, NoneV,
                      DictUpdate(locals, [k \in {stmt.arg} |->
                                            ModuleV(stmt.arg)]),
                      printed, imported \cup {stmt.arg})
           ELSE RunRaise(globals, "exception", "ImportError", locals, printed,
                         imported)
    [] stmt.op = "from_import" ->
         IF BuiltinAvailable("__import__", security_mode)
           THEN RunOk(globals, NoneV,
                      DictUpdate(locals, [k \in {stmt.expr.s} |->
                                            AttrV(stmt.arg)]),
                      printed, imported \cup {stmt.arg})
           ELSE RunRaise(globals, "exception", "ImportError", locals, printed,
                         imported)
    [] stmt.op = "raise" ->
         IF stmt.arg = "SystemExit"
           THEN RunRaise(globals, "exit", "SystemExit",
                   locals, printed, imported)
           ELSE RunRaise(globals, "exception", stmt.arg,
                   locals, printed, imported)

\* exec(code, exec_globals, exec_locals): statements in order, stopping at
\* the first one that raises
RECURSIVE ExecCode(_, _, _, _, _, _)
ExecCode(stmts, locals, globals, security_mode, printed, imported) ==
  IF stmts = <<>> THEN RunOk(globals, NoneV, locals, printed, imported)
  ELSE LET r == ExecStmt(stmts[1], locals, globals, security_mode,
                         printed, imported) IN
       IF r.status = "ok"
         THEN ExecCode(Tail(stmts), r.locals, r.globals, security_mode,
                       r.printed, r.imported)
         ELSE r

(***************************************************************************)
(* Responses                                                               *)
(***************************************************************************)
\* {'success': True, 'result': result}
Ok(result) ==
  [result |-> result, success |-> TRUE, keys |-> {"success", "result"},
   output |-> NoneV, marker |-> "", error |-> "", traceback |-> "absent"]

\* {'success': True, 'result': result, 'output': output}
OkWithOutput(result, output) ==
  [result |-> result, success |-> TRUE,
   keys |-> {"success", "result", "output"}, output |-> output, marker |-> "",
   error |-> "", traceback |-> "absent"]

\* a security error that carries the formatted stack trace
SecurityError_mut(reason) ==
  [result |-> NoneV, success |-> FALSE,
   keys |-> {"success", "error", "traceback"}, output |-> NoneV,
   marker |-> "SECURITY ERROR: ", error |-> reason, traceback |-> "text"]

\* the "except SecurityException" clauses
SecurityError(reason) ==
  [result |-> NoneV, success |-> FALSE,
   keys |-> {"success", "error", "traceback"}, output |-> NoneV,
   marker |-> "SECURITY ERROR: ", error |-> reason, traceback |-> "empty"]

\* the "except Exception" clauses of the handlers
RuntimeError(err) ==
  [result |-> NoneV, success |-> FALSE,
   keys |-> {"success", "error", "traceback"}, output |-> NoneV,
   marker |-> "", error |-> err, traceback |-> "text"]

\* the "except json.JSONDecodeError" clause of run
DecodeError ==
  [result |-> NoneV, success |-> FALSE, keys |-> {"success", "error"},
   output |-> NoneV, marker |-> "JSON decode error: ",
   error |-> "JSONDecodeError", traceback |-> "absent"]

\* the "except Exception" clause of run
UnexpectedError(err) ==
  [result |-> NoneV, success |-> FALSE,
   keys |-> {"success", "error", "traceback"}, output |-> NoneV,
   marker |-> "Unexpected error: ", error |-> err, traceback |-> "text"]

\* an else branch of process_request that reports success
UnknownCommand_mut ==
  [result |-> NoneV, success |-> TRUE, keys |-> {"success", "result"},
   output |-> NoneV, marker |-> "Unknown command: ", error |-> "",
   traceback |-> "absent"]

\* the else branch of process_request
UnknownCommand ==
  [result |-> NoneV, success |-> FALSE, keys |-> {"success", "error"},
   output |-> NoneV, marker |-> "Unknown command: ", error |-> "",
   traceback |-> "absent"]

\* _serialize(obj)
serialize(obj) ==
  CASE obj.kind \in {"none", "int", "str"} -> obj
    [] obj.kind = "list" -> obj
    [] obj.kind = "returned" -> StrV("returned by " \o obj.s)
    [] obj.kind = "set_of_bytes" -> BytesListV
    [] OTHER -> StrV("<" \o obj.kind \o " " \o obj.s \o ">")

\* does json.dumps(response) return (TRUE) or raise TypeError (FALSE)
JsonEncodable(response) ==
  /\ response.result.kind \in {"none", "int", "str", "list"}
  /\ response.output.kind \in {"none", "int", "str", "list"}

\* the text captured by redirect_stdout after n calls of print("hi")
CapturedOutput(n) == [n |-> n, kind |-> "str", s |-> "hi\n"]

(***************************************************************************)
(* Handlers.  Each returns what the call leaves behind:                    *)
(*   response  the dict returned (meaningless when exit is TRUE)           *)
(*   globals   self.globals_dict after the call                            *)
(*   exit      TRUE when SystemExit left the handler                       *)
(*   stray     lines the call wrote to the real sys.stdout                 *)
(*   audit     lines the call wrote to sys.stderr                          *)
(*   imported  modules imported so far                                     *)
(***************************************************************************)
Outcome(response, globals, exit, stray, audit, imported) ==
  [audit |-> audit, globals |-> globals, imported |-> imported,
   response |-> response, exit |-> exit, stray |-> stray]

\* a handler that writes the scope of the run back whole, variables included
SharedObjects_mut(globals_dict, variables, run_globals) == run_globals

\* "self.globals_dict.copy()" is a shallow copy: the objects bound in
\* globals_dict are the very objects the code runs against (unless the
\* request's variables rebind the name), so a change made to one of them in
\* place is a change of what globals_dict holds.
SharedObjects(globals_dict, variables, run_globals) ==
  [k \in DOMAIN globals_dict |->
     IF k \in DOMAIN variables THEN globals_dict[k] ELSE run_globals[k]]

\* "safe_builtins = {... __builtins__.items() ...}": __builtins__ is the
\* builtins module when the file runs as the script __main__ and a dict when
\* the file is imported; the module has no items().
BuiltinsFilterFails(security_mode, builtins_is_dict) ==
  security_mode = "RESTRICTED" /\ ~ builtins_is_dict

\* a choice that prefers the captured output to the binding named result
ExecuteResult_mut(exec_locals, printed) ==
  IF printed > 0 THEN CapturedOutput(printed)
  ELSE IF "result" \in DOMAIN exec_locals THEN exec_locals["result"]
  ELSE NoneV

\* "exec_locals.get('result', captured_output if captured_output else
\* None)"
ExecuteResult(exec_locals, printed) ==
  IF "result" \in DOMAIN exec_locals THEN exec_locals["result"]
  ELSE IF printed > 0 THEN CapturedOutput(printed)
  ELSE NoneV

\* execute_code(code, variables, security_mode)
execute_code(code, variables, security_mode, globals_dict, builtins_is_dict, imported) ==
  LET verdict == ValidationTable[CodeText(code)][security_mode]
      audit == Cardinality(verdict.audit)
      exec_globals == DictUpdate(globals_dict, variables)
      run == ExecCode(code, EmptyDict, exec_globals, security_mode, 0,
                      imported)
      captured_output == CapturedOutput(run.printed)
      result == ExecuteResult(run.locals, run.printed)
  IN
  IF ~ verdict.ok
    THEN Outcome(SecurityError(verdict.reason), globals_dict, FALSE, 0,
                 audit, imported)
  ELSE IF BuiltinsFilterFails(security_mode, builtins_is_dict)
    THEN Outcome(RuntimeError("AttributeError"), globals_dict, FALSE, 0,
                 audit, imported)
  ELSE IF run.status = "exit"
    THEN Outcome(RuntimeError("SystemExit"), globals_dict, TRUE, 0, audit,
                 run.imported)
  ELSE IF run.status = "exception"
    THEN Outcome(RuntimeError(run.err),
                 SharedObjects(globals_dict, variables, run.globals),
                 FALSE, 0, audit, run.imported)
  ELSE Outcome(OkWithOutput(serialize(result),
                            IF run.printed > 0 THEN captured_output
                            ELSE NoneV),
               DictUpdate(SharedObjects(globals_dict, variables,
                                        run.globals),
                          run.locals),
               FALSE, 0, audit, run.imported)

\* evaluate_expression(expression, variables, security_mode)
evaluate_expression(expression, variables, security_mode, globals_dict, builtins_is_dict, imported) ==
  LET verdict == ValidationTable[ExprText(expression)][security_mode]
      audit == Cardinality(verdict.audit)
      eval_globals == DictUpdate(globals_dict, variables)
      run == EvalExpr(expression, EmptyDict, eval_globals, security_mode, 0,
                      imported)
  IN
  IF ~ verdict.ok
    THEN Outcome(SecurityError(verdict.reason), globals_dict, FALSE, 0,
                 audit, imported)
  ELSE IF BuiltinsFilterFails(security_mode, builtins_is_dict)
    THEN Outcome(RuntimeError("AttributeError"), globals_dict, FALSE, 0,
                 audit, imported)
  ELSE IF run.status = "exit"
    THEN Outcome(RuntimeError("SystemExit"), globals_dict, TRUE,
                 run.printed, audit, run.imported)
  ELSE IF run.status = "exception"
    THEN Outcome(RuntimeError(run.err),
                 SharedObjects(globals_dict, variables, run.globals),
                 FALSE, run.printed, audit, run.imported)
  ELSE Outcome(Ok(serialize(run.val)),
               SharedObjects(globals_dict, variables, run.globals),
               FALSE, run.printed, audit, run.imported)

\* What calling getattr(module, function_name) with the request's args and
\* kwargs does, for the members the sample requests name: "absent" when
\* hasattr is False.
ModuleMember(module_name, function_name) ==
  CASE module_name = "math" /\ function_name = "sqrt" -> "returns"
    [] module_name = "calendar" /\ function_name = "prmonth" -> "prints"
    [] module_name = "sys" /\ function_name = "exit" -> "exits"
    [] module_name = "os" /\ function_name = "getcwd" -> "returns"
    [] module_name = "os.path" /\ function_name = "join" -> "returns"
    [] module_name = "pty" /\ function_name = "fork" -> "returns"
    [] module_name = "zipfile" /\ function_name = "is_zipfile" -> "returns"
    [] OTHER -> "absent"

\* module checks that leave the allow-list of the ADMIN tier to _safe_import
call_module_check_mut(module_name, security_mode) ==
  IF InModuleSet(module_name, always_blocked_modules)
    THEN Deny("always_blocked")
  ELSE IF security_mode = "RESTRICTED" THEN
         IF ~ InModuleSet(module_name, safe_modules)
           THEN Deny("requires_admin") ELSE Accept
  ELSE Accept

\* the module checks at the top of call_module
call_module_check(module_name, security_mode) ==
  IF InModuleSet(module_name, always_blocked_modules)
    THEN Deny("always_blocked")
  ELSE IF security_mode = "RESTRICTED" THEN
         IF ~ InModuleSet(module_name, safe_modules)
           THEN Deny("requires_admin") ELSE Accept
  ELSE IF security_mode = "ADMIN" THEN
         IF ~ InModuleSet(module_name, safe_modules \cup admin_modules)
           THEN Deny("not_whitelisted") ELSE Accept
  ELSE Accept

CallModuleTable ==
  [name \in SampleModules |->
     [mode \in Modes |-> call_module_check(name, mode)]]

\* call_module(module_name, function_name, args, kwargs, security_mode)
call_module(module_name, function_name, security_mode, globals_dict, imported) ==
  LET verdict == CallModuleTable[module_name][security_mode]
      gate == ImportTable[module_name][security_mode]
      member == ModuleMember(module_name, function_name)
      loaded == imported \cup {module_name}
  IN
  IF ~ verdict.ok
    THEN Outcome(SecurityError(verdict.reason), globals_dict, FALSE, 0, 0,
                 imported)
  ELSE IF ~ gate.ok
    THEN Outcome(RuntimeError("ImportError"), globals_dict, FALSE, 0, 0,
                 imported)
  ELSE IF member = "absent"
    THEN Outcome(RuntimeError("AttributeError"), globals_dict, FALSE, 0, 0,
                 loaded)
  ELSE IF member = "exits"
    THEN Outcome(RuntimeError("SystemExit"), globals_dict, TRUE, 0, 0,
                 loaded)
  ELSE IF member = "prints"
    THEN Outcome(Ok(NoneV), globals_dict, FALSE, 1, 0, loaded)
  ELSE Outcome(Ok(StrV("value")), globals_dict, FALSE, 0, 0, loaded)

\* clear_globals that answers without emptying the dict
clear_globals_mut(globals_dict, imported) ==
  Outcome(Ok(StrV("Globals cleared")), globals_dict, FALSE, 0, 0, imported)

\* clear_globals()
clear_globals(globals_dict, imported) ==
  Outcome(Ok(StrV("Globals cleared")), EmptyDict, FALSE, 0, 0, imported)

\* a ping branch that starts from a fresh context
ping_mut(globals_dict, imported) ==
  Outcome(Ok(StrV("pong")), EmptyDict, FALSE, 0, 0, imported)

\* the ping branch of process_request
ping(globals_dict, imported) ==
  Outcome(Ok(StrV("pong")), globals_dict, FALSE, 0, 0, imported)

\* get_version()
get_version(globals_dict, imported) ==
  Outcome(Ok(StrV("version")), globals_dict, FALSE, 0, 0, imported)

\* list_modules(): pkg_resources may or may not be importable
list_modules(available, globals_dict, imported) ==
  Outcome(IF available THEN Ok(StrV("installed"))
          ELSE RuntimeError("ModuleNotFoundError"),
          globals_dict, FALSE, 0, 0, imported)

\* check_syntax(code)
check_syntax(globals_dict, imported) ==
  Outcome(Ok(StrV("errors")), globals_dict, FALSE, 0, 0, imported)

\* get_completions(code, line, column)
get_completions(globals_dict, imported) ==
  Outcome(Ok(StrV("completions")), globals_dict, FALSE, 0, 0, imported)

\* The dict that execute_shell returns when subprocess.run returns
ShellCompleted(returncode) ==
  [result |-> StrV("streams"), success |-> (returncode = 0),
   keys |-> {"success", "stdout", "stderr", "exitCode", "result"},
   output |-> NoneV, marker |-> "", error |-> "", traceback |-> "absent",
   exitCode |-> returncode, stdout |-> "text", stderr |-> "text"]

\* the "except subprocess.TimeoutExpired" clause
ShellTimedOut ==
  [result |-> NoneV, success |-> FALSE,
   keys |-> {"success", "error", "stdout", "stderr", "exitCode"},
   output |-> NoneV, marker |-> "", error |-> "Command timed out",
   traceback |-> "absent", exitCode |-> -1, stdout |-> "", stderr |-> ""]

\* the "except Exception" clause of execute_shell
ShellFailed(err) ==
  [result |-> NoneV, success |-> FALSE,
   keys |-> {"success", "error", "traceback", "stdout", "stderr",
             "exitCode"},
   output |-> NoneV, marker |-> "", error |-> err, traceback |-> "text",
   exitCode |-> -1, stdout |-> "", stderr |-> ""]

\* execute_shell(command, timeout).  subprocess.run(..., timeout=timeout)
\* kills the shell and raises TimeoutExpired when the command is still
\* running after timeout seconds; with timeout=None it waits for the
\* command however long that takes.
execute_shell(timeout, ran, duration, globals_dict, imported) ==
  LET response ==
        IF ran = "oserror" THEN ShellFailed("OSError")
        ELSE IF timeout.kind = "int" /\ duration > timeout.n
          THEN ShellTimedOut
        ELSE ShellCompleted(IF ran = "zero" THEN 0 ELSE 3)
  IN Outcome(response, globals_dict, FALSE, 0, 0, imported)

(***************************************************************************)
(* Requests                                                                *)
(***************************************************************************)
\* A decoded request.  A field the line does not carry holds the value that
\* request.get gives for it: "absent" for security_mode (the default is
\* applied by process_request), the empty code, no variables, no timeout.
Request(command, code, expression, variables, security_mode, module, function) ==
  [module |-> module, code |-> code, security_mode |-> security_mode,
   expression |-> expression, variables |-> variables, timeout |-> AbsentV,
   command |-> command, function |-> function]

SimpleRequest(command) ==
  Request(command, <<>>, Lit(0), EmptyDict, "absent", "", "")

\* what the machine around the bridge does during one request
\*   pkg_resources  whether "import pkg_resources" works
\*   ran            what the shell command does when it is left to finish:
\*                  exit status "zero" or "nonzero", or "oserror" when the
\*                  shell cannot be started
\*   duration       the seconds the shell command takes to finish
Env(pkg_resources, ran) ==
  [ran |-> ran, duration |-> 0, pkg_resources |-> pkg_resources]
NoEnv == Env(TRUE, "zero")
ShellEnv(ran, duration) == [Env(TRUE, ran) EXCEPT !.duration = duration]

\* request.get('timeout', 30)
DefaultTimeout == 30
TimeoutOf(request) ==
  IF request.timeout = AbsentV THEN IntV(DefaultTimeout) ELSE request.timeout

\* request.get('security_mode', 'RESTRICTED')
SecurityModeOf(request) ==
  IF request.security_mode = "absent" THEN "RESTRICTED"
  ELSE request.security_mode

\* process_request with execute_shell refused below the ADMIN tier
process_request_mut(request, env, globals_dict, builtins_is_dict, imported) ==
  LET command == request.command
      security_mode == SecurityModeOf(request)
  IN
  CASE command = "execute" ->
         execute_code(request.code, request.variables, security_mode,
                      globals_dict, builtins_is_dict, imported)
    [] command = "evaluate" ->
         evaluate_expression(request.expression, request.variables,
                             security_mode, globals_dict, builtins_is_dict,
                             imported)
    [] command = "call_module" ->
         call_module(request.module, request.function, security_mode,
                     globals_dict, imported)
    [] command = "version" -> get_version(globals_dict, imported)
    [] command = "list_modules" ->
         list_modules(env.pkg_resources, globals_dict, imported)
    [] command = "clear_globals" -> clear_globals(globals_dict, imported)
    [] command = "check_syntax" -> check_syntax(globals_dict, imported)
    [] command = "get_completions" ->
         get_completions(globals_dict, imported)
    [] command = "execute_shell" ->
         IF security_mode = "RESTRICTED"
           THEN Outcome(SecurityError("requires_admin"), globals_dict,
                        FALSE, 0, 0, imported)
           ELSE execute_shell(TimeoutOf(request), env.ran, env.duration,
                              globals_dict, imported)
    [] command = "ping" -> ping(globals_dict, imported)
    [] OTHER -> Outcome(UnknownCommand, globals_dict, FALSE, 0, 0, imported)

\* process_request(request)
process_request(request, env, globals_dict, builtins_is_dict, imported) ==
  LET command == request.command
      security_mode == SecurityModeOf(request)
  IN
  CASE command = "execute" ->
         execute_code(request.code, request.variables, security_mode,
                      globals_dict, builtins_is_dict, imported)
    [] command = "evaluate" ->
         evaluate_expression(request.expression, request.variables,
                             security_mode, globals_dict, builtins_is_dict,
                             imported)
    [] command = "call_module" ->
         call_module(request.module, request.function, security_mode,
                     globals_dict, imported)
    [] command = "version" -> get_version(globals_dict, imported)
    [] command = "list_modules" ->
         list_modules(env.pkg_resources, globals_dict, imported)
    [] command = "clear_globals" -> clear_globals(globals_dict, imported)
    [] command = "check_syntax" -> check_syntax(globals_dict, imported)
    [] command = "get_completions" ->
         get_completions(globals_dict, imported)
    [] command = "execute_shell" ->
         execute_shell(TimeoutOf(request), env.ran, env.duration,
                       globals_dict, imported)
    [] command = "ping" -> ping(globals_dict, imported)
    [] OTHER -> Outcome(UnknownCommand, globals_dict, FALSE, 0, 0, imported)

\* the variables field: absent, or {"x": 9}
SomeVariables == [k \in {"x"} |-> IntV(9)]

\* the security_mode field: absent, or a string
SecurityModeFields == Modes \cup {"absent"}

ExecuteRequest(code, variables, mode) ==
  Request("execute", code, Lit(0), variables, mode, "", "")
EvaluateRequest(expression, variables, mode) ==
  Request("evaluate", <<>>, expression, variables, mode, "", "")
ShellRequest(timeout, mode) ==
  [Request("execute_shell", <<>>, Lit(0), EmptyDict, mode, "", "")
     EXCEPT !.timeout = timeout]
CallModuleRequest(call, mode) ==
  Request("call_module", <<>>, Lit(0), EmptyDict, mode, call[1], call[2])

\* Every sample text is submitted at RESTRICTED and at ADMIN; some are also
\* submitted with another mode string, with no mode, or with variables.
ExecuteRequests ==
  { ExecuteRequest(code, EmptyDict, mode) :
      code \in Programs, mode \in {"RESTRICTED", "ADMIN"} }
  \cup
  { ExecuteRequest(code, EmptyDict, "OTHER") :
      code \in { <<Assign("result", Add(2, 2))>>, <<Import("zipfile")>>,
                 <<Import("pty")>>, <<Assign("result", EvalCall)>>,
                 <<Assign("result", CallImport("zipfile"))>>,
                 <<Assign("result", CallImport("pty"))>> } }
  \cup
  { ExecuteRequest(code, EmptyDict, "absent") :
      code \in { <<Assign("result", Add(2, 2))>>, <<Import("os")>> } }
  \cup
  { ExecuteRequest(code, SomeVariables, mode) :
      code \in { <<Assign("result", Name("x"))>>, <<Assign("x", Lit(1))>> },
      mode \in {"RESTRICTED", "ADMIN"} }

EvaluateRequests ==
  { EvaluateRequest(expression, EmptyDict, mode) :
      expression \in Expressions, mode \in {"RESTRICTED", "ADMIN"} }
  \cup
  { EvaluateRequest(expression, EmptyDict, "OTHER") :
      expression \in { Name("result"), EvalCall, CallImport("pty") } }
  \cup
  { EvaluateRequest(Name("result"), EmptyDict, "absent") }
  \cup
  { EvaluateRequest(Name("x"), SomeVariables, mode) :
      mode \in {"RESTRICTED", "ADMIN"} }

CallModuleRequests ==
  { CallModuleRequest(call, mode) :
      call \in ModuleCalls, mode \in {"RESTRICTED", "ADMIN"} }
  \cup
  { CallModuleRequest(call, "OTHER") :
      call \in { <<"zipfile", "is_zipfile">>, <<"pty", "fork">> } }
  \cup
  { CallModuleRequest(<<"math", "sqrt">>, "absent") }

\* execute_shell requests and what the command does: a quick command that
\* exits with status zero (at every security_mode) or nonzero, commands of
\* 40 seconds under the default timeout, under a timeout of 5 and under
\* "timeout": null, a quick command under a timeout of 5, and a shell that
\* cannot be started.  <<timeout, security_mode, ran, duration>>
ShellCalls ==
  { <<AbsentV, mode, "zero", 1>> : mode \in {"absent", "RESTRICTED", "ADMIN"} }
  \cup { <<AbsentV, mode, "zero", 40>> : mode \in {"absent", "ADMIN"} }
  \cup { <<AbsentV, "absent", "nonzero", 1>>,
         <<IntV(5), "absent", "zero", 40>>,
         <<IntV(5), "absent", "zero", 1>>,
         <<NoneV, "absent", "zero", 40>>,
         <<AbsentV, "absent", "oserror", 0>> }

(***************************************************************************)
(* The gateway process                                                     *)
(***************************************************************************)
VARIABLES
  state,             \* lifecycle: "STARTING", "READY", "TERMINATED"; while
                     \* the module loads "LOADING", and "CRASHED" when
                     \* loading it raised
  limits,            \* what the module-level resource limit code did
  globals_dict,      \* self.globals_dict
  stdout,            \* lines written to the real standard output
  stderr,            \* lines written to standard error
  nread,             \* number of input lines read so far
  imported,          \* modules imported while the last line was handled
  builtins_is_dict,  \* whether __builtins__ is a dict (file imported) or
                     \* the builtins module (file run as the script)
  last,              \* the line read last, and what was read from it
  response,          \* the response record written last
  bound_names        \* history: every name an execute has bound so far

vars == <<state, limits, globals_dict, stdout, stderr, nread, imported,
          builtins_is_dict, last, response, bound_names>>

\* json.dumps({'status': 'ready'}) + '\n'
ReadyLine == [kind |-> "ready", success |-> TRUE, marker |-> "", for |-> 0]
\* json.dumps(response) + '\n', written for the k-th input line
ResponseLine(k, resp) ==
  [kind |-> "response", success |-> resp.success, marker |-> resp.marker,
   for |-> k]
\* a line that code run for the k-th input line wrote to sys.stdout
TextLine(k) == [kind |-> "text", success |-> FALSE, marker |-> "", for |-> k]

\* n copies of a line
Repeat(line, n) == [i \in 1..n |-> line]

NoResponse ==
  [result |-> NoneV, success |-> FALSE, keys |-> {}, output |-> NoneV,
   marker |-> "", error |-> "", traceback |-> "absent"]

\* {'success': True, 'result': 'shutting down'}
ShutdownAck == Ok(StrV("shutting down"))

Line(kind, request, env) == [kind |-> kind, request |-> request, env |-> env]
NoLine == Line("none", SimpleRequest(""), NoEnv)

\* What the module-level code has done about the resource limits
\*   memory_override, cpu_override  the environment variables
\*       PYTHON3_MAX_MEMORY_MB and PYTHON3_MAX_CPU_SECONDS: "absent", or
\*       the kind of text they hold: "integer" (a number setrlimit can
\*       take), "huge" (an integer that does not fit a C long), "text"
\*       (not an integer literal)
\*   resource_module  whether "import resource" works on this platform
\*   phase            how far the module-level code has come
\*   memory, cpu      "unset", "applied" or "failed"
\*   memory_calls, cpu_calls  setrlimit calls made for each limit
Limits(memory_override, cpu_override, resource_module, phase, memory, cpu, memory_calls, cpu_calls) ==
  [memory_override |-> memory_override, cpu_override |-> cpu_override,
   resource_module |-> resource_module, phase |-> phase,
   memory |-> memory, cpu |-> cpu,
   memory_calls |-> memory_calls, cpu_calls |-> cpu_calls]

\* no overrides, both setrlimit calls made and successful
LimitsApplied ==
  Limits("absent", "absent", TRUE, "done", "applied", "applied", 1, 1)

\* The process after the module has loaded on a host where both setrlimit
\* calls succeed, and PythonBridge() has been constructed.
Init ==
  /\ state = "STARTING"
  /\ limits = LimitsApplied
  /\ globals_dict = EmptyDict
  /\ stdout = <<>>
  /\ stderr = <<"limit", "limit">>
  /\ nread = 0
  /\ imported = {}
  /\ builtins_is_dict \in BOOLEAN
  /\ last = NoLine
  /\ response = NoResponse
  /\ bound_names = {}

\* run() entering the loop without having written the ready record
EmitReady_mut ==
  /\ state = "STARTING"
  /\ state' = "READY"
  /\ UNCHANGED <<limits, globals_dict, stdout, stderr, nread, imported,
                 builtins_is_dict, last, response, bound_names>>

\* run(), lines 691-693: signal ready
EmitReady ==
  /\ state = "STARTING"
  /\ state' = "READY"
  /\ stdout' = stdout \o <<ReadyLine>>
  /\ UNCHANGED <<limits, globals_dict, stderr, nread, imported,
                 builtins_is_dict, last, response, bound_names>>

\* readline() returned '': break
EndOfStream ==
  /\ state = "READY"
  /\ state' = "TERMINATED"
  /\ last' = Line("eof", SimpleRequest(""), NoEnv)
  /\ imported' = {}
  /\ UNCHANGED <<limits, globals_dict, stdout, stderr, nread,
                 builtins_is_dict, response, bound_names>>

\* an except clause of run that leaves the loop after writing the error
FailedLine_mut(kind, error_response, max) ==
  /\ state = "READY"
  /\ nread < max
  /\ nread' = nread + 1
  /\ last' = Line(kind, SimpleRequest(""), NoEnv)
  /\ stdout' = stdout \o <<ResponseLine(nread + 1, error_response)>>
  /\ response' = error_response
  /\ imported' = {}
  /\ state' = "TERMINATED"
  /\ UNCHANGED <<limits, globals_dict, stderr, builtins_is_dict,
                 bound_names>>

\* A turn of the loop that ends in one of the except clauses of run before
\* process_request is reached: the error response is written and the loop
\* goes on.
FailedLine(kind, error_response, max) ==
  /\ state = "READY"
  /\ nread < max
  /\ nread' = nread + 1
  /\ last' = Line(kind, SimpleRequest(""), NoEnv)
  /\ stdout' = stdout \o <<ResponseLine(nread + 1, error_response)>>
  /\ response' = error_response
  /\ imported' = {}
  /\ UNCHANGED <<state, limits, globals_dict, stderr, builtins_is_dict,
                 bound_names>>

\* a line that json.loads rejects
MalformedLine == FailedLine("malformed", DecodeError, MaxRequests)

\* a line that is JSON but no object: request.get raises AttributeError
NotAnObjectLine ==
  FailedLine("not_an_object", UnexpectedError("AttributeError"), MaxRequests)

\* the shutdown command acknowledged without the break
Shutdown_mut ==
  /\ state = "READY"
  /\ nread < MaxRequests
  /\ nread' = nread + 1
  /\ last' = Line("request", SimpleRequest("shutdown"), NoEnv)
  /\ stdout' = stdout \o <<ResponseLine(nread + 1, ShutdownAck)>>
  /\ response' = ShutdownAck
  /\ imported' = {}
  /\ UNCHANGED <<state, limits, globals_dict, stderr, builtins_is_dict,
                 bound_names>>

\* the shutdown command: acknowledge and break
Shutdown ==
  /\ state = "READY"
  /\ nread < MaxRequests
  /\ nread' = nread + 1
  /\ last' = Line("request", SimpleRequest("shutdown"), NoEnv)
  /\ stdout' = stdout \o <<ResponseLine(nread + 1, ShutdownAck)>>
  /\ response' = ShutdownAck
  /\ state' = "TERMINATED"
  /\ imported' = {}
  /\ UNCHANGED <<limits, globals_dict, stderr, builtins_is_dict,
                 bound_names>>

\* One turn of the loop for a request that is no shutdown: process_request,
\* json.dumps, write, flush.  json.dumps raising TypeError is caught by the
\* "except Exception" clause of run.  SystemExit raised below process_request
\* is caught by neither except clause and ends the process.
Serve(request, env, max) ==
  /\ state = "READY"
  /\ nread < max
  /\ \E outcome \in { process_request(request, env, globals_dict,
                                       builtins_is_dict, {}) } :
     \E written \in { IF JsonEncodable(outcome.response)
                        THEN outcome.response
                        ELSE UnexpectedError("TypeError") } :
        /\ nread' = nread + 1
        /\ last' = Line("request", request, env)
        /\ globals_dict' = outcome.globals
        /\ bound_names' = bound_names \cup DOMAIN outcome.globals
        /\ imported' = outcome.imported
        /\ stderr' = stderr \o Repeat("audit", outcome.audit)
        /\ IF outcome.exit
             THEN /\ state' = "TERMINATED"
                  /\ stdout' = stdout \o Repeat(TextLine(nread + 1), outcome.stray)
                  /\ response' = NoResponse
             ELSE /\ state' = "READY"
                  /\ stdout' = stdout \o Repeat(TextLine(nread + 1), outcome.stray)
                                      \o <<ResponseLine(nread + 1, written)>>
                  /\ response' = written
        /\ UNCHANGED <<limits, builtins_is_dict>>

Execute == \E request \in ExecuteRequests : Serve(request, NoEnv, MaxRequests)
Evaluate ==
  \E request \in EvaluateRequests : Serve(request, NoEnv, MaxRequests)
CallModule ==
  \E request \in CallModuleRequests : Serve(request, NoEnv, MaxRequests)
Version == Serve(SimpleRequest("version"), NoEnv, MaxRequests)
ListModules ==
  \E available \in BOOLEAN :
     Serve(SimpleRequest("list_modules"), Env(available, "zero"),
           MaxRequests)
ClearGlobals == Serve(SimpleRequest("clear_globals"), NoEnv, MaxRequests)
CheckSyntax == Serve(SimpleRequest("check_syntax"), NoEnv, MaxRequests)
GetCompletions == Serve(SimpleRequest("get_completions"), NoEnv, MaxRequests)
ExecuteShell ==
  \E call \in ShellCalls :
     Serve(ShellRequest(call[1], call[2]), ShellEnv(call[3], call[4]),
           MaxRequests)
Ping ==
  \E mode \in {"absent", "ADMIN"} :
     Serve(Request("ping", <<>>, Lit(0), EmptyDict, mode, "", ""), NoEnv,
           MaxRequests)
\* a command that is not recognized, or no command at all
UnknownRequest ==
  \E command \in {"bogus", "absent"} :
     Serve(SimpleRequest(command), NoEnv, MaxRequests)

Next ==
  \/ EmitReady
  \/ EndOfStream
  \/ MalformedLine
  \/ NotAnObjectLine
  \/ Shutdown
  \/ Execute
  \/ Evaluate
  \/ CallModule
  \/ Version
  \/ ListModules
  \/ ClearGlobals
  \/ CheckSyntax
  \/ GetCompletions
  \/ ExecuteShell
  \/ Ping
  \/ UnknownRequest

\* sessions of up to MaxRequests lines drawn from the full sample
Spec == Init /\ [][Next]_vars

(***************************************************************************)
(* Longer sessions over the requests that read or write the context        *)
(***************************************************************************)
ContextPrograms ==
  { <<Assign("result", Add(2, 2))>>, <<Assign("x", Lit(1))>>,
    <<Assign("len", Lit(1))>>, <<Assign("result", Name("x"))>> }

ContextExpressions == { Name("result"), Name("x"), Name("len") }

ContextExecute ==
  \E code \in ContextPrograms, mode \in {"RESTRICTED", "ADMIN"} :
     Serve(ExecuteRequest(code, EmptyDict, mode), NoEnv, MaxContextRequests)
ContextEvaluate ==
  \E expression \in ContextExpressions, mode \in {"RESTRICTED", "ADMIN"},
     variables \in {EmptyDict, SomeVariables} :
     Serve(EvaluateRequest(expression, variables, mode), NoEnv,
           MaxContextRequests)
ContextClearGlobals ==
  Serve(SimpleRequest("clear_globals"), NoEnv, MaxContextRequests)
ContextPing == Serve(SimpleRequest("ping"), NoEnv, MaxContextRequests)
ContextMalformedLine ==
  FailedLine("malformed", DecodeError, MaxContextRequests)

ContextNext ==
  \/ EmitReady
  \/ EndOfStream
  \/ ContextExecute
  \/ ContextEvaluate
  \/ ContextClearGlobals
  \/ ContextPing
  \/ ContextMalformedLine

\* sessions of up to MaxContextRequests lines drawn from the context requests
ContextSpec == Init /\ [][ContextNext]_vars


(***************************************************************************)
(* Start of the process: the module-level resource limit code, then        *)
(* PythonBridge() and run()                                                *)
(***************************************************************************)
\* number of input lines a session reads after a modelled start
MaxBootRequests == 1

Overrides == {"absent", "integer", "huge", "text"}

\* The interpreter starts executing the module: nothing is written yet.
BootInit ==
  /\ state = "LOADING"
  /\ \E memory_override \in Overrides, cpu_override \in Overrides,
        resource_module \in BOOLEAN :
        limits = Limits(memory_override, cpu_override, resource_module,
                        "start", "unset", "unset", 0, 0)
  /\ globals_dict = EmptyDict
  /\ stdout = <<>>
  /\ stderr = <<>>
  /\ nread = 0
  /\ imported = {}
  /\ builtins_is_dict \in BOOLEAN
  /\ last = NoLine
  /\ response = NoResponse
  /\ bound_names = {}

\* what the rest of the process leaves alone while the module loads
LoadingFrame ==
  UNCHANGED <<globals_dict, stdout, nread, imported, builtins_is_dict, last,
              response, bound_names>>

\* lines 19-20: int(os.environ.get(...)) for both overrides, outside any
\* try: text that is no integer literal raises ValueError, which nothing
\* catches, and the interpreter exits with the traceback on stderr
ParseOverrides ==
  /\ state = "LOADING"
  /\ limits.phase = "start"
  /\ IF "text" \in {limits.memory_override, limits.cpu_override}
       THEN /\ state' = "CRASHED"
            /\ stderr' = Append(stderr, "traceback")
            /\ limits' = limits
       ELSE /\ state' = state
            /\ stderr' = stderr
            /\ limits' = [limits EXCEPT !.phase = "parsed"]
  /\ LoadingFrame

\* line 24: import resource; "except ImportError" prints the warning
ImportResource ==
  /\ state = "LOADING"
  /\ limits.phase = "parsed"
  /\ IF limits.resource_module
       THEN /\ limits' = [limits EXCEPT !.phase = "imported"]
            /\ stderr' = stderr
       ELSE /\ limits' = [limits EXCEPT !.phase = "done"]
            /\ stderr' = Append(stderr, "warning")
  /\ state' = state
  /\ LoadingFrame

\* lines 27-29: setrlimit(RLIMIT_AS, ...) and the message.  The call raises
\* for a value that does not fit a C long, and may raise for any value the
\* system refuses; "except Exception" prints the warning and the CPU limit
\* is not attempted.
SetMemoryLimit ==
  /\ state = "LOADING"
  /\ limits.phase = "imported"
  /\ \E refused \in BOOLEAN :
        IF refused \/ limits.memory_override = "huge"
          THEN /\ limits' = [limits EXCEPT !.phase = "done",
                                           !.memory = "failed",
                                           !.memory_calls = @ + 1]
               /\ stderr' = Append(stderr, "warning")
          ELSE /\ limits' = [limits EXCEPT !.phase = "memory_done",
                                           !.memory = "applied",
                                           !.memory_calls = @ + 1]
               /\ stderr' = Append(stderr, "limit")
  /\ state' = state
  /\ LoadingFrame

\* lines 32-33: setrlimit(RLIMIT_CPU, ...) and the message
SetCpuLimit ==
  /\ state = "LOADING"
  /\ limits.phase = "memory_done"
  /\ \E refused \in BOOLEAN :
        IF refused \/ limits.cpu_override = "huge"
          THEN /\ limits' = [limits EXCEPT !.phase = "done",
                                           !.cpu = "failed",
                                           !.cpu_calls = @ + 1]
               /\ stderr' = Append(stderr, "warning")
          ELSE /\ limits' = [limits EXCEPT !.phase = "done",
                                           !.cpu = "applied",
                                           !.cpu_calls = @ + 1]
               /\ stderr' = Append(stderr, "limit")
  /\ state' = state
  /\ LoadingFrame

\* lines 738-740: the module has loaded; bridge = PythonBridge()
Construct ==
  /\ state = "LOADING"
  /\ limits.phase = "done"
  /\ state' = "STARTING"
  /\ globals_dict' = EmptyDict
  /\ UNCHANGED <<limits, stdout, stderr, nread, imported, builtins_is_dict,
                 last, response, bound_names>>

BootPing == Serve(SimpleRequest("ping"), NoEnv, MaxBootRequests)
BootExecute ==
  Serve(ExecuteRequest(<<Assign("result", Add(2, 2))>>, EmptyDict, "ADMIN"),
        NoEnv, MaxBootRequests)

BootNext ==
  \/ ParseOverrides
  \/ ImportResource
  \/ SetMemoryLimit
  \/ SetCpuLimit
  \/ Construct
  \/ EmitReady
  \/ EndOfStream
  \/ BootPing
  \/ BootExecute

\* the process from its start, with sessions of up to MaxBootRequests lines
BootSpec == BootInit /\ [][BootNext]_vars
(***************************************************************************)
(* Properties                                                              *)
(***************************************************************************)
IsRequest == last.kind = "request"
IsCommand(command) == IsRequest /\ last.request.command = command
LastMode == SecurityModeOf(last.request)

\* the input lines whose response records are on stdout, in stream order
ResponseLines == SelectSeq(stdout, LAMBDA line : line.kind = "response")
AnsweredLines == [i \in 1..Len(ResponseLines) |-> ResponseLines[i].for]

\* the source text that the last request submitted for validation
LastText ==
  IF last.request.command = "execute" THEN CodeText(last.request.code)
  ELSE ExprText(last.request.expression)

\* C1: every input line read so far (none of them a shutdown need be
\* excluded: it is answered too) has exactly one response record on stdout
\* after the ready record, and the k-th response record answers the k-th
\* line, whatever the requests did.
C1_OneResponsePerLineInOrder ==
  state # "STARTING" =>
     /\ stdout # <<>>
     /\ stdout[1].kind = "ready"
     /\ AnsweredLines = [k \in 1..nread |-> k]

\* C2: the loop is left only on end-of-stream or on a shutdown request; no
\* fault raised by submitted code, exit-type signals included, ends it.
C2_LoopEndsOnlyOnEofOrShutdown ==
  state = "TERMINATED" => (last.kind = "eof" \/ IsCommand("shutdown"))

\* C3: every line on standard output is the ready record or the response
\* record of a request; text written by submitted code is never a line of
\* the protocol stream.
C3_OnlyProtocolLinesOnStdout ==
  \A i \in 1..Len(stdout) : stdout[i].kind \in {"ready", "response"}

\* C4: a line that cannot be decoded as a request is answered by exactly one
\* error response and changes nothing a later request can observe: the
\* context, the lifecycle state and the builtins are as before, so the next
\* request is served from the same state as if the line had not been sent.
C4_UndecodableLineIsRecovered ==
  [][ (last'.kind \in {"malformed", "not_an_object"} /\ nread' = nread + 1)
        => /\ Len(stdout') = Len(stdout) + 1
           /\ stdout'[Len(stdout')].kind = "response"
           /\ stdout'[Len(stdout')].for = nread'
           /\ ~ stdout'[Len(stdout')].success
           /\ ~ response'.success
           /\ globals_dict' = globals_dict
           /\ builtins_is_dict' = builtins_is_dict
           /\ state = "READY"
           /\ state' = "READY" ]_vars

\* an undecodable line was answered with a decode error, and the well-formed
\* request that followed it succeeded
C4_Witness ==
  /\ state = "READY"
  /\ IsRequest
  /\ response.success
  /\ Len(stdout) = 3
  /\ stdout[2].marker = "JSON decode error: "
  /\ stdout[3].kind = "response"
  /\ stdout[3].success

LifecycleRank(s) ==
  CASE s = "STARTING" -> 0 [] s = "READY" -> 1 [] s = "TERMINATED" -> 2

\* C5: exactly one ready record is written, before any line is read and
\* before any response; the lifecycle only moves STARTING -> READY ->
\* TERMINATED.
C5_ReadyOnceAndFirst ==
  /\ [] /\ state = "STARTING" => (stdout = <<>> /\ nread = 0)
        /\ state # "STARTING" =>
             /\ stdout # <<>>
             /\ stdout[1].kind = "ready"
             /\ \A i \in 2..Len(stdout) : stdout[i].kind # "ready"
  /\ [][ /\ LifecycleRank(state') >= LifecycleRank(state)
         /\ (nread' # nread => state = "READY") ]_vars

\* a session that answered a line after the ready record and then ended
C5_Witness ==
  /\ state = "TERMINATED"
  /\ nread >= 1
  /\ Len(stdout) >= 2
  /\ stdout[2].kind = "response"

\* C6: a shutdown request is answered by one final acknowledgement (not by
\* the dispatcher) and ends the loop; end-of-stream ends it writing nothing;
\* once TERMINATED nothing is read, dispatched or written.
C6_ShutdownAndEofEndTheLoop ==
  [][ /\ state # "TERMINATED"
      /\ (last'.kind = "request" /\ last'.request.command = "shutdown"
            /\ nread' = nread + 1)
           => /\ state' = "TERMINATED"
              /\ stdout' = Append(stdout, ResponseLine(nread', ShutdownAck))
              /\ response' = ShutdownAck
              /\ response' # UnknownCommand
              /\ globals_dict' = globals_dict
      /\ (last'.kind = "eof" /\ state = "READY")
           => /\ state' = "TERMINATED"
              /\ stdout' = stdout
              /\ nread' = nread
              /\ globals_dict' = globals_dict ]_vars

\* a session ended by a shutdown request that followed another request
C6_Witness ==
  /\ state = "TERMINATED"
  /\ IsCommand("shutdown")
  /\ nread = 2
  /\ response = ShutdownAck
  /\ stdout[Len(stdout)] = ResponseLine(2, ShutdownAck)

\* C7: execute of "result = 2 + 2" at RESTRICTED succeeds with result 4 and
\* binds result, and an evaluate of a name so bound, at RESTRICTED and
\* without variables, succeeds with the bound value.
C7_ContextPersistence ==
  /\ ( /\ IsCommand("execute")
       /\ last.request.code = <<Assign("result", Add(2, 2))>>
       /\ LastMode = "RESTRICTED" )
       => /\ response.success
          /\ response.result = IntV(4)
          /\ "result" \in DOMAIN globals_dict
          /\ globals_dict["result"] = IntV(4)
  /\ ( /\ IsCommand("evaluate")
       /\ last.request.expression = Name("result")
       /\ last.request.variables = EmptyDict
       /\ LastMode = "RESTRICTED"
       /\ "result" \in DOMAIN globals_dict
       /\ globals_dict["result"] = IntV(4) )
       => /\ response.success
          /\ response.result = IntV(4)

\* the names that an evaluate step of the loop looks up, when it is one
EvaluatedName(line) ==
  IF /\ line.kind = "request"
     /\ line.request.command = "evaluate"
     /\ line.request.expression.e = "name"
    THEN {line.request.expression.s} ELSE {}

C9_ForbiddenNeverImported ==
  \A name \in imported : ~ InModuleSet(name, always_blocked_modules)

\* C10: what validate accepts at RESTRICTED it accepts at ADMIN; what it
\* denies at RESTRICTED because of an admin module (or of a blocked function
\* or dangerous pattern) it accepts at ADMIN; and at ADMIN it denies for no
\* other reason than an always-blocked module, which is then the error of
\* the response.
C10_TierOrdering ==
  (IsCommand("execute") \/ IsCommand("evaluate")) =>
     LET restricted == ValidationTable[LastText]["RESTRICTED"]
         admin == ValidationTable[LastText]["ADMIN"]
     IN /\ restricted.ok => admin.ok
        /\ restricted.reason \in
             {"admin_module", "blocked_function", "dangerous_pattern"}
             => admin.ok
        /\ ~ admin.ok => admin.reason = "always_blocked"
        /\ (LastMode = "ADMIN" /\ response.marker = "SECURITY ERROR: ")
             => response.error = "always_blocked"
        /\ (LastMode = "ADMIN" /\ admin.ok)
             => response.marker # "SECURITY ERROR: "

\* code that RESTRICTED denies for its admin module ran at ADMIN
C10_Witness ==
  /\ IsCommand("execute")
  /\ LastMode = "ADMIN"
  /\ ValidationTable[LastText]["RESTRICTED"].reason = "admin_module"
  /\ response.success

\* the step that reads one more line and finds a request of that command
ServesCommand(command) ==
  /\ nread' = nread + 1
  /\ last'.kind = "request"
  /\ last'.request.command = command

\* C11: when validate denies the code of an execute or evaluate request the
\* code is not run: the context is unchanged, nothing is captured, written
\* or imported, and the one response is an error that starts with the
\* security-error marker and has an empty trace.
C11_DeniedCodeIsNotRun ==
  [][ ( /\ (ServesCommand("execute") \/ ServesCommand("evaluate"))
        /\ ~ ValidationTable[LastText'][LastMode'].ok )
        => /\ globals_dict' = globals_dict
           /\ imported' = {}
           /\ stderr' = stderr
           /\ ~ response'.success
           /\ response'.marker = "SECURITY ERROR: "
           /\ response'.error = ValidationTable[LastText'][LastMode'].reason
           /\ response'.traceback = "empty"
           /\ response'.output = NoneV
           /\ stdout' = Append(stdout, ResponseLine(nread', response'))
           /\ state' = "READY" ]_vars

\* a name was bound, and the execute that followed was denied by validate
\* and left the binding alone
C11_Witness ==
  /\ IsCommand("execute")
  /\ nread = 2
  /\ ~ ValidationTable[LastText][LastMode].ok
  /\ response.marker = "SECURITY ERROR: "
  /\ response.traceback = "empty"
  /\ globals_dict # EmptyDict

\* C12: a ping is answered with success and the fixed value "pong" in every
\* READY state and at every security_mode, and the step changes nothing but
\* the streams: the context is as it was, however many pings came before.
C12_PingIsFixedAndPure ==
  [][ ServesCommand("ping")
        => /\ state = "READY"
           /\ state' = "READY"
           /\ response' = Ok(StrV("pong"))
           /\ globals_dict' = globals_dict
           /\ stderr' = stderr
           /\ stdout' = Append(stdout, ResponseLine(nread', response')) ]_vars

\* a ping answered after an execute had bound a name, the binding kept
C12_Witness ==
  /\ IsCommand("ping")
  /\ nread = 2
  /\ response = Ok(StrV("pong"))
  /\ globals_dict # EmptyDict
  /\ state = "READY"

\* C13: an evaluate request never changes the context: whether it succeeds,
\* faults or is denied, the persisted names and the values bound to them are
\* the same after the step as before it.
C13_EvaluateLeavesContext ==
  [][ ServesCommand("evaluate") => globals_dict' = globals_dict ]_vars

\* the command values that run and process_request compare against
RecognizedCommands ==
  {"execute", "evaluate", "call_module", "version", "list_modules",
   "clear_globals", "check_syntax", "get_completions", "execute_shell",
   "ping", "shutdown"}

\* C14: a decoded request whose command is missing or is none of the
\* recognized ones is answered by one error response and changes no state:
\* the context is as before and the session stays READY.
C14_UnknownCommandChangesNothing ==
  [][ ( /\ nread' = nread + 1
        /\ last'.kind = "request"
        /\ last'.request.command \notin RecognizedCommands )
        => /\ ~ response'.success
           /\ "error" \in response'.keys
           /\ response'.marker = "Unknown command: "
           /\ globals_dict' = globals_dict
           /\ stderr' = stderr
           /\ stdout' = Append(stdout, ResponseLine(nread', response'))
           /\ state = "READY"
           /\ state' = "READY" ]_vars

\* a request without a command answered with an error after an execute had
\* bound a name, the binding kept and the session READY
C14_Witness ==
  /\ IsRequest
  /\ last.request.command = "absent"
  /\ nread = 2
  /\ ~ response.success
  /\ response.marker = "Unknown command: "
  /\ globals_dict # EmptyDict
  /\ state = "READY"

\* the wall-clock limit that C15 gives an execute_shell request: its timeout
\* field when that is a number, 30 otherwise
ClaimedTimeout(request) ==
  IF request.timeout.kind = "int" THEN request.timeout.n ELSE DefaultTimeout

\* C15: every execute_shell call runs under a wall-clock timeout, the
\* timeout field of the request or 30: a command that outlives it is
\* answered by a failure with exitCode -1 and empty stdout and stderr, and
\* the session is READY afterwards.
C15_ShellTimeout ==
  IsCommand("execute_shell") =>
     /\ state = "READY"
     /\ last.env.duration > ClaimedTimeout(last.request)
          => /\ ~ response.success
             /\ response.exitCode = -1
             /\ response.stdout = ""
             /\ response.stderr = ""

\* C16: execute_shell is not gated by the security policy: the response to
\* the same command line and timeout is the same at every security_mode,
\* present or absent, and is never a security error.
C16_ShellNotGated ==
  IsCommand("execute_shell") =>
     /\ response.marker # "SECURITY ERROR: "
     /\ \A mode \in SecurityModeFields :
          process_request([last.request EXCEPT !.security_mode = mode],
                          last.env, globals_dict, builtins_is_dict,
                          {}).response = response

\* a shell command sent with security_mode RESTRICTED ran and succeeded
C16_Witness ==
  /\ IsCommand("execute_shell")
  /\ last.request.security_mode = "RESTRICTED"
  /\ response.success
  /\ response.exitCode = 0

\* C17: each resource ceiling is applied at most once, and only while the
\* module loads, before the ready record and before any line is read;
\* whatever the overrides hold, and whether or not applying is supported or
\* succeeds, loading does not end the process; and a session that runs
\* without both ceilings applied has a warning on standard error.
C17_LimitsOnceAndNonFatal ==
  /\ limits.memory_calls <= 1
  /\ limits.cpu_calls <= 1
  /\ state = "LOADING" => (stdout = <<>> /\ nread = 0)
  /\ state \in {"STARTING", "READY", "TERMINATED"} => limits.phase = "done"
  /\ state # "CRASHED"
  /\ ( /\ state \in {"STARTING", "READY", "TERMINATED"}
       /\ ~ (limits.memory = "applied" /\ limits.cpu = "applied") )
       => \E i \in 1..Len(stderr) : stderr[i] = "warning"

\* C18: _safe_import applies the rule of validate: whenever a request
\* executes the code "import m", validate accepts that code at the
\* request's tier exactly when _safe_import accepts m at that tier, and the
\* module check of call_module decides as _safe_import does.
C18_ImportRuleMatchesValidate ==
  \A m \in CodeModules :
     (IsCommand("execute") /\ last.request.code = <<Import(m)>>) =>
        /\ ValidationTable[LastText][LastMode].ok
             <=> ImportTable[m][LastMode].ok
        /\ CallModuleTable[m][LastMode].ok <=> ImportTable[m][LastMode].ok

\* the modules that the last request asks for through a call of __import__
RequestedImports ==
  IF IsCommand("evaluate")
    THEN IF last.request.expression.e = "call_import"
           THEN {last.request.expression.s} ELSE {}
  ELSE IF IsCommand("execute")
    THEN { last.request.code[i].expr.s :
             i \in { j \in 1..Len(last.request.code) :
                       last.request.code[j].expr.e = "call_import" } }
  ELSE {}

\* C19: no response to a policy denial and no response to a line that is
\* not a well-formed request carries trace text: not the denials of
\* validate and of call_module's module check (marked as security errors),
\* not a denial by _safe_import while the code runs, not the answer to an
\* undecodable line.
C19_NoTraceOnSecurityOrDecodeErrors ==
  LET traceless == response.traceback \in {"empty", "absent"} IN
  /\ response.marker = "SECURITY ERROR: " => traceless
  /\ last.kind \in {"malformed", "not_an_object"} => traceless
  /\ ( /\ \E m \in RequestedImports : ~ ImportTable[m][LastMode].ok
       /\ ValidationTable[LastText][LastMode].ok
       /\ ~ BuiltinsFilterFails(LastMode, builtins_is_dict) )
       => (~ response.success /\ traceless)

\* C20: every response written has the shape of its outcome: a success
\* carries a result and a failure carries error text, whatever the
\* operation.
C20_ResponseShape ==
  response # NoResponse =>
     /\ response.success => "result" \in response.keys
     /\ ~ response.success => "error" \in response.keys

\* C21: once the ready record has been written nothing more is written to
\* standard error: no step taken in state READY, whatever the command and
\* the security_mode, adds a line to it.
C21_NoStderrAfterReady ==
  [][ state = "READY" => stderr' = stderr ]_vars

\* the code of the request binds that name when it runs to its end
AssignsName(code, name) ==
  \E i \in 1..Len(code) :
     \/ code[i].op = "assign" /\ code[i].arg = name
     \/ code[i].op \in {"import", "import_spaced"} /\ code[i].arg = name
     \/ code[i].op = "from_import" /\ code[i].expr.s = name

\* the number of print calls in the code of the request
PrintCount(code) ==
  Cardinality({ i \in 1..Len(code) :
                  code[i].op \in {"assign", "expr"}
                  /\ code[i].expr.e = "print" })

\* C22: when an execute succeeds, its result is the (serialized) value that
\* the code bound to the name result if the code bound that name, else the
\* text the code wrote to standard output if it wrote any, else null; and
\* the output field is that text, or null when nothing was written.  A
\* result bound by an earlier request is not a binding of this code.
C22_ExecuteResultOrder ==
  [][ (ServesCommand("execute") /\ response'.success)
        => \E code \in {last'.request.code} :
           \E captured \in { IF PrintCount(code) > 0
                               THEN CapturedOutput(PrintCount(code))
                               ELSE NoneV } :
             /\ response'.output = captured
             /\ response'.keys = {"success", "result", "output"}
             /\ IF AssignsName(code, "result")
                  THEN /\ "result" \in DOMAIN globals_dict'
                       /\ response'.result = serialize(globals_dict'["result"])
                  ELSE response'.result = captured ]_vars

\* an execute that printed and bound no result, answered with the printed
\* text as result and as output, while the context held a result bound by
\* the request before it
C22_Witness ==
  /\ IsCommand("execute")
  /\ nread = 2
  /\ response.success
  /\ ~ AssignsName(last.request.code, "result")
  /\ "result" \in DOMAIN globals_dict
  /\ response.result = CapturedOutput(1)
  /\ response.output = CapturedOutput(1)

\* C23: the variables of an execute or evaluate request shadow the context
\* for that request and are not persisted.  A name that the request supplies
\* through variables and that its code does not bind is, after the request,
\* bound in the context to what it was bound to before, or not bound if it
\* was not; and an evaluate of such a name that succeeds returns the value
\* supplied, not the persisted one.
C23_VariablesNotPersisted ==
  [][ (ServesCommand("execute") \/ ServesCommand("evaluate"))
        => \A k \in DOMAIN last'.request.variables :
             /\ ( \/ last'.request.command = "evaluate"
                  \/ ~ AssignsName(last'.request.code, k) )
                  => IF k \in DOMAIN globals_dict
                       THEN /\ k \in DOMAIN globals_dict'
                            /\ globals_dict'[k] = globals_dict[k]
                       ELSE k \notin DOMAIN globals_dict'
             /\ ( /\ last'.request.command = "evaluate"
                  /\ last'.request.expression = Name(k)
                  /\ response'.success )
                  => response'.result
                       = serialize(last'.request.variables[k]) ]_vars

\* x was persisted as 1; an execute of "result = x" with variables {x: 9}
\* returned 9 and left x bound to 1
C23_Witness ==
  /\ IsCommand("execute")
  /\ nread = 2
  /\ last.request.variables = SomeVariables
  /\ last.request.code = <<Assign("result", Name("x"))>>
  /\ response.success
  /\ response.result = IntV(9)
  /\ "x" \in DOMAIN globals_dict
  /\ globals_dict["x"] = IntV(1)

\* the modules a tier may use: the safe ones, at ADMIN the admin ones too,
\* and never an always-blocked one
OutsideTier(module_name, security_mode) ==
  \/ InModuleSet(module_name, always_blocked_modules)
  \/ ~ InModuleSet(module_name,
                   IF security_mode = "ADMIN"
                     THEN safe_modules \cup admin_modules
                     ELSE safe_modules)

\* C24: call_module never changes the context.  At RESTRICTED and at ADMIN
\* a module outside the allowed set of the tier is answered with a security
\* error and nothing is imported or called; for an allowed module without
\* the named member the answer is the AttributeError failure and nothing is
\* called; otherwise the member is called once, and when it returns, its
\* serialized return value is the result.
C24_CallModule ==
  [][ ServesCommand("call_module")
        => /\ globals_dict' = globals_dict
           /\ LastMode' \in {"RESTRICTED", "ADMIN"}
                => \E module_name \in {last'.request.module} :
                   \E member \in { ModuleMember(module_name,
                                                last'.request.function) } :
                   IF OutsideTier(module_name, LastMode')
                     THEN /\ ~ response'.success
                          /\ response'.marker = "SECURITY ERROR: "
                          /\ response'.traceback = "empty"
                          /\ imported' = {}
                          /\ state' = "READY"
                          /\ stdout' = Append(stdout,
                                         ResponseLine(nread', response'))
                   ELSE IF member = "absent"
                     THEN /\ response' = RuntimeError("AttributeError")
                          /\ imported' = {module_name}
                          /\ state' = "READY"
                          /\ stdout' = Append(stdout,
                                         ResponseLine(nread', response'))
                   ELSE IF member = "returns"
                     THEN /\ response' = Ok(serialize(StrV("value")))
                          /\ imported' = {module_name}
                          /\ stdout' = Append(stdout,
                                         ResponseLine(nread', response'))
                   ELSE IF member = "prints"
                     THEN /\ response' = Ok(serialize(NoneV))
                          /\ stdout' = stdout \o <<TextLine(nread'),
                                         ResponseLine(nread', response')>>
                   ELSE imported' = {module_name} ]_vars

\* with a name bound in the context, a call into a module that is in none of
\* the policy sets was refused at ADMIN before anything was imported
C24_Witness ==
  /\ IsCommand("call_module")
  /\ nread = 2
  /\ LastMode = "ADMIN"
  /\ last.request.module = "zipfile"
  /\ response.marker = "SECURITY ERROR: "
  /\ response.traceback = "empty"
  /\ imported = {}
  /\ globals_dict # EmptyDict

\* C25: the tier of a request is not carried over to later requests: a
\* RESTRICTED execute or evaluate never returns what a function of an admin
\* module returned, whatever earlier ADMIN requests bound in the context.
C25_TierNotPersisted ==
  [][ ( /\ (ServesCommand("execute") \/ ServesCommand("evaluate"))
        /\ LastMode' = "RESTRICTED" )
        => \A m \in admin_modules :
              response'.result # serialize(ReturnedBy(m)) ]_vars

\* the request with another value in its security_mode field
AtMode(request, mode) == [request EXCEPT !.security_mode = mode]

\* C26: a request is handled under RESTRICTED or under ADMIN.  One that
\* carries no security_mode is handled exactly as the same request at
\* RESTRICTED; one whose security_mode is another value gets nothing that
\* the same request is denied at ADMIN: it imports no module and succeeds in
\* nothing that it would not at ADMIN.
C26_TwoTiersOnly ==
  [][ ( /\ nread' = nread + 1
        /\ last'.kind = "request"
        /\ last'.request.command \in {"execute", "evaluate", "call_module"} )
        => /\ last'.request.security_mode = "absent"
                => \E restricted \in
                        { process_request(AtMode(last'.request, "RESTRICTED"),
                                          last'.env, globals_dict,
                                          builtins_is_dict, {}) } :
                      /\ globals_dict' = restricted.globals
                      /\ imported' = restricted.imported
                      /\ \/ restricted.exit
                         \/ response' = IF JsonEncodable(restricted.response)
                                          THEN restricted.response
                                          ELSE UnexpectedError("TypeError")
           /\ last'.request.security_mode \notin {"absent", "RESTRICTED", "ADMIN"}
                => \E admin \in
                        { process_request(AtMode(last'.request, "ADMIN"),
                                          last'.env, globals_dict,
                                          builtins_is_dict, {}) } :
                      /\ imported' \subseteq admin.imported
                      /\ response'.success => admin.response.success ]_vars

\* C27: an execute request that is answered with an error response leaves
\* the context as it was before the request, whether the fault came from
\* validation, from the code, or from serializing and encoding the result
\* after the code had run.
C27_FailedExecuteLeavesContext ==
  [][ ( /\ ServesCommand("execute")
        /\ response'.keys # {}
        /\ ~ response'.success )
        => globals_dict' = globals_dict ]_vars

\* C28: the context changes only in a step that serves an execute answered
\* with success or a clear_globals: every other command, an unknown command
\* and an undecodable line leave it as it was; and except in a clear_globals
\* step no bound name is lost.
C28_ContextChangesOnlyByExecuteOrClear ==
  [][ /\ globals_dict' # globals_dict
           => \/ ServesCommand("execute") /\ response'.success
              \/ ServesCommand("clear_globals")
      /\ ~ ServesCommand("clear_globals")
           => DOMAIN globals_dict \subseteq DOMAIN globals_dict' ]_vars
====
